---- MODULE Spec2Model ----
(***************************************************************************)
(* Model of update_lat_lon_time.py: wait_for_fix (the fix accumulator) and *)
(* set_telescope_from_gps (time resolution and the controller command      *)
(* sequence).  Optional Python values are sequences: <<>> is None and      *)
(* <<v>> is the value v.                                                   *)
(***************************************************************************)
EXTENDS Integers, Sequences, FiniteSets, TLC

\* ---------------------------------------------------------------- bounds
\* Longest record stream one call of wait_for_fix consumes in the model.
MaxRecords == 3
\* Largest HDOP value a GGA record carries in the model.
MaxHdop == 4

\* ------------------------------------------------------ program constants
\* def wait_for_fix(nmr, hdop: int = 3)
DefaultHdop == 3
\* if msg.HDOP < 3:
HdopLimit == 3

None == <<>>
Some(v) == <<v>>
IsNone(o) == o = <<>>
Val(o) == o[1]

\* ------------------------------------------------------------ input data
\* HDOP values just below, at and above the limit.
HdopValues == (HdopLimit - 1)..MaxHdop

TimeA == [hour |-> 17, minute |-> 30, second |-> 0, microsecond |-> 500000]
TimeB == [hour |-> 2, minute |-> 0, second |-> 0, microsecond |-> 250000]
TimeR == [hour |-> 23, minute |-> 59, second |-> 59, microsecond |-> 0]

DateWinter == [year |-> 2024, month |-> 1, day |-> 1]
DateSummer == [year |-> 2024, month |-> 6, day |-> 1]

\* The position/time payloads a GGA sentence carries in the model: one over
\* Los Angeles, one over the open South Atlantic.
Payloads ==
    { [lat |-> 34, lon |-> -118, time |-> TimeB],
      [lat |-> -40, lon |-> 0, time |-> TimeA] }

GGARecords ==
    { [msgID |-> "GGA", lat |-> p.lat, lon |-> p.lon, time |-> p.time, HDOP |-> h] :
        p \in Payloads, h \in HdopValues }

RMCRecords ==
    { [msgID |-> "RMC", status |-> s, date |-> d, time |-> TimeR] :
        s \in {"A", "V"}, d \in {DateWinter, DateSummer} }

\* Any other sentence the receiver emits (GSV, GSA, VTG, ...).
OtherRecords == { [msgID |-> "GSV"] }

Records == GGARecords \cup RMCRecords \cup OtherRecords

\* The values of the hdop parameter wait_for_fix is called with when it is
\* exercised on its own.
HdopArgs == HdopValues

VARIABLES
    pc,        \* position of set_telescope_from_gps
    calls,     \* controller operations invoked so far, in order
    log,       \* messages printed so far
    error,     \* None, or the exception that ended the run and the step raising it
    stale,     \* TRUE while the GPS port's input buffer holds bytes from before the run
    hdop,      \* wait_for_fix: the hdop parameter
    wpc,       \* wait_for_fix: position inside the loop
    msg,       \* wait_for_fix: the record nmr.read() returned
    lat, lon, date, time,   \* wait_for_fix: the four accumulated fields
    consumed,  \* the records nmr.read() has returned so far
    fix,       \* the value wait_for_fix returned (None or a Fix)
    resolved,  \* dt_utc, dt_local and is_daylight_saving_time once computed
    ctrlTime,  \* the time the controller holds after setTime
    ctrlLoc    \* the location the controller holds after setLocation

seqVars == <<pc, calls, log, error, stale, resolved, ctrlTime, ctrlLoc>>
wffVars == <<hdop, wpc, msg, lat, lon, date, time, consumed, fix>>
vars == <<pc, calls, log, error, stale, hdop, wpc, msg, lat, lon, date, time,
          consumed, fix, resolved, ctrlTime, ctrlLoc>>

\* ------------------------------------------------------------ wait_for_fix
\* Variant: the limit is off by one on the strict side.
QualifiesStricter(m) == m.HDOP < HdopLimit - 1

\* Variant: the comparison is the wrong way round.
QualifiesReversed(m) == m.HDOP > HdopLimit

\* Variant: the limit itself is accepted.
QualifiesAtLimit(m) == m.HDOP <= HdopLimit

\* msg.HDOP < 3
Qualifies(m) == m.HDOP < HdopLimit

\* Variant: the status field is not looked at.
IsValidAnyStatus(m) == m.status \in {"A", "V"}

\* msg.status == "A"
IsValid(m) == m.status = "A"

\* all(val is not None for val in [lat, lon, date, time])
AllPopulated(la, lo, d, t) == ~IsNone(la) /\ ~IsNone(lo) /\ ~IsNone(d) /\ ~IsNone(t)

\* Fix(lat=lat, lon=lon, date=date, time=time)
Fix(la, lo, d, t) == [lat |-> Val(la), lon |-> Val(lo), date |-> Val(d), time |-> Val(t)]

\* lat = lon = date = time = None on entry.
WffEnter(h) ==
    /\ hdop' = h
    /\ wpc' = "read"
    /\ msg' = None
    /\ lat' = None /\ lon' = None /\ date' = None /\ time' = None
    /\ fix' = None

\* (raw_data, msg) = nmr.read(): blocks until the source delivers a record.
WffRead ==
    /\ wpc = "read"
    /\ Len(consumed) < MaxRecords
    /\ \E r \in Records :
        /\ msg' = Some(r)
        /\ consumed' = Append(consumed, r)
    /\ wpc' = "gga"
    /\ UNCHANGED <<seqVars, hdop, lat, lon, date, time, fix>>

\* if msg.msgID == "GGA": if msg.HDOP < 3: lat = msg.lat ... else: print(...)
WffGGA ==
    /\ wpc = "gga"
    /\ IF Val(msg).msgID = "GGA"
       THEN IF Qualifies(Val(msg))
            THEN /\ lat' = Some(Val(msg).lat)
                 /\ wpc' = "gga_lon"
                 /\ UNCHANGED log
            ELSE /\ log' = log \cup {"Degredation of Precision is too high."}
                 /\ wpc' = "rmc"
                 /\ UNCHANGED lat
       ELSE /\ wpc' = "rmc"
            /\ UNCHANGED <<lat, log>>
    /\ UNCHANGED <<pc, calls, error, stale, resolved, ctrlTime, ctrlLoc,
                   hdop, msg, lon, date, time, consumed, fix>>

\* lon = msg.lon
WffSetLon ==
    /\ wpc = "gga_lon"
    /\ lon' = Some(Val(msg).lon)
    /\ wpc' = "gga_time"
    /\ UNCHANGED <<seqVars, hdop, msg, lat, date, time, consumed, fix>>

\* Variant: the time-of-day is stored only while it is still unset.
WffSetTimeOnce ==
    /\ wpc = "gga_time"
    /\ time' = IF IsNone(time) THEN Some(Val(msg).time) ELSE time
    /\ wpc' = "rmc"
    /\ UNCHANGED <<seqVars, hdop, msg, lat, lon, date, consumed, fix>>

\* time = msg.time
WffSetTime ==
    /\ wpc = "gga_time"
    /\ time' = Some(Val(msg).time)
    /\ wpc' = "rmc"
    /\ UNCHANGED <<seqVars, hdop, msg, lat, lon, date, consumed, fix>>

\* Variant: a valid RMC also supplies the time-of-day.
WffRMCTakesTime ==
    /\ wpc = "rmc"
    /\ IF Val(msg).msgID = "RMC"
       THEN IF IsValid(Val(msg))
            THEN /\ date' = Some(Val(msg).date)
                 /\ time' = Some(Val(msg).time)
                 /\ UNCHANGED log
            ELSE /\ log' = log \cup {"Data frame is not valid."}
                 /\ UNCHANGED <<date, time>>
       ELSE UNCHANGED <<date, time, log>>
    /\ wpc' = "check"
    /\ UNCHANGED <<pc, calls, error, stale, resolved, ctrlTime, ctrlLoc,
                   hdop, msg, lat, lon, consumed, fix>>

\* Variant: the date is stored before the status is looked at.
WffRMCDateFirst ==
    /\ wpc = "rmc"
    /\ IF Val(msg).msgID = "RMC"
       THEN /\ date' = Some(Val(msg).date)
            /\ log' = IF IsValid(Val(msg)) THEN log ELSE log \cup {"Data frame is not valid."}
       ELSE UNCHANGED <<date, log>>
    /\ wpc' = "check"
    /\ UNCHANGED <<pc, calls, error, stale, resolved, ctrlTime, ctrlLoc,
                   hdop, msg, lat, lon, time, consumed, fix>>

\* if msg.msgID == "RMC": if msg.status == "A": date = msg.date else: print(...)
WffRMC ==
    /\ wpc = "rmc"
    /\ IF Val(msg).msgID = "RMC"
       THEN IF IsValid(Val(msg))
            THEN /\ date' = Some(Val(msg).date)
                 /\ UNCHANGED log
            ELSE /\ log' = log \cup {"Data frame is not valid."}
                 /\ UNCHANGED date
       ELSE UNCHANGED <<date, log>>
    /\ wpc' = "check"
    /\ UNCHANGED <<pc, calls, error, stale, resolved, ctrlTime, ctrlLoc,
                   hdop, msg, lat, lon, time, consumed, fix>>

\* Variant: the Fix is produced but the loop keeps reading.
WffCheckKeepsReading ==
    /\ wpc = "check"
    /\ fix' = IF AllPopulated(lat, lon, date, time)
              THEN Some(Fix(lat, lon, date, time))
              ELSE fix
    /\ wpc' = "read"
    /\ UNCHANGED <<seqVars, hdop, msg, lat, lon, date, time, consumed>>

\* if all(...): return Fix(...)   -- otherwise back to the top of the loop
WffCheck ==
    /\ wpc = "check"
    /\ IF AllPopulated(lat, lon, date, time)
       THEN /\ fix' = Some(Fix(lat, lon, date, time))
            /\ wpc' = "returned"
       ELSE /\ wpc' = "read"
            /\ UNCHANGED fix
    /\ UNCHANGED <<seqVars, hdop, msg, lat, lon, date, time, consumed>>

\* Variant: an interrupt returns whatever has been accumulated so far.
WffInterruptPartial ==
    /\ wpc \in {"read", "gga", "gga_lon", "gga_time", "rmc", "check"}
    /\ fix' = Some([lat |-> lat, lon |-> lon, date |-> date, time |-> time])
    /\ wpc' = "interrupted"
    /\ UNCHANGED <<seqVars, hdop, msg, lat, lon, date, time, consumed>>

\* except KeyboardInterrupt: return None   -- anywhere inside the try block
WffInterrupt ==
    /\ wpc \in {"read", "gga", "gga_lon", "gga_time", "rmc", "check"}
    /\ fix' = None
    /\ wpc' = "interrupted"
    /\ UNCHANGED <<seqVars, hdop, msg, lat, lon, date, time, consumed>>

WffNext ==
    \/ WffRead
    \/ WffGGA
    \/ WffSetLon
    \/ WffSetTime
    \/ WffRMC
    \/ WffCheck
    \/ WffInterrupt

\* wait_for_fix on its own, called with any hdop argument.
InitFix ==
    /\ pc = "AcquireFix"
    /\ calls = <<>>
    /\ log = {}
    /\ error = None
    /\ stale = FALSE
    /\ resolved = None /\ ctrlTime = None /\ ctrlLoc = None
    /\ consumed = <<>>
    /\ hdop \in HdopArgs
    /\ wpc = "read"
    /\ msg = None
    /\ lat = None /\ lon = None /\ date = None /\ time = None
    /\ fix = None

SpecFix == InitFix /\ [][WffNext]_vars

\* wait_for_fix called as the run calls it (default hdop), with a source that
\* keeps delivering and an operator who never interrupts: every statement
\* the loop reaches is executed, and a pending read is eventually served.
WffStep ==
    \/ WffGGA
    \/ WffSetLon
    \/ WffSetTime
    \/ WffRMC
    \/ WffCheck

NextLive ==
    \/ WffRead
    \/ WffStep

InitLive == InitFix /\ hdop = DefaultHdop

SpecLive ==
    /\ InitLive
    /\ [][NextLive]_vars
    /\ WF_vars(WffRead)
    /\ WF_vars(WffStep)

\* ------------------------------------------------------------ time resolver
IsLeap(y) == (y % 4 = 0 /\ y % 100 # 0) \/ y % 400 = 0

DaysInMonth(y, m) ==
    IF m = 2 THEN (IF IsLeap(y) THEN 28 + 1 ELSE 28)
    ELSE IF m \in {4, 6, 9, 11} THEN 30 ELSE 31

PrevDay(d) ==
    IF d.day > 1 THEN [d EXCEPT !.day = d.day - 1]
    ELSE IF d.month > 1
         THEN [d EXCEPT !.month = d.month - 1, !.day = DaysInMonth(d.year, d.month - 1)]
         ELSE [d EXCEPT !.year = d.year - 1, !.month = 12, !.day = 31]

NextDay(d) ==
    IF d.day < DaysInMonth(d.year, d.month) THEN [d EXCEPT !.day = d.day + 1]
    ELSE IF d.month < 12
         THEN [d EXCEPT !.month = d.month + 1, !.day = 1]
         ELSE [d EXCEPT !.year = d.year + 1, !.month = 1, !.day = 1]

SecondsOfDay(dt) == dt.hour * 3600 + dt.minute * 60 + dt.second

\* tf.timezone_at(lat=..., lng=...): the zone covering the coordinates, or None.
TimezoneAt(la, lo) ==
    IF la = 34 /\ lo = -118 THEN Some("America/Los_Angeles") ELSE None

\* Standard UTC offset of a zone, in seconds.
StdOffset(zone) == IF zone = "America/Los_Angeles" THEN -8 * 3600 ELSE 0

\* dt_local.dst().total_seconds(): Pacific daylight time runs from the second
\* Sunday of March 10:00 UTC to the first Sunday of November 09:00 UTC (the
\* 2024 transitions, the year of the model's dates).
DstSeconds(zone, utc) ==
    LET key == utc.month * 10000 + utc.day * 100 + utc.hour
    IN  IF zone = "America/Los_Angeles" /\ key >= 31010 /\ key < 110309
        THEN 3600 ELSE 0

\* datetime.datetime(year=fix.date.year, ..., second=fix.time.second, tzinfo=tz_utc)
DtUtc(f) ==
    [year |-> f.date.year, month |-> f.date.month, day |-> f.date.day,
     hour |-> f.time.hour, minute |-> f.time.minute, second |-> f.time.second,
     microsecond |-> 0, tz |-> "UTC"]

\* dt_utc.astimezone(tz_local)
AsTimezone(utc, zone) ==
    LET off == StdOffset(zone) + DstSeconds(zone, utc)
        total == SecondsOfDay(utc) + off
        d0 == [year |-> utc.year, month |-> utc.month, day |-> utc.day]
        d == IF total < 0 THEN PrevDay(d0) ELSE IF total >= 86400 THEN NextDay(d0) ELSE d0
        t == IF total < 0 THEN total + 86400 ELSE IF total >= 86400 THEN total - 86400 ELSE total
    IN  [year |-> d.year, month |-> d.month, day |-> d.day,
         hour |-> t \div 3600, minute |-> (t % 3600) \div 60, second |-> t % 60,
         microsecond |-> utc.microsecond, tz |-> zone]

\* Variant: a zero daylight-saving offset counts as daylight-saving time.
IsDstNonNegative(dstSeconds) == IF dstSeconds >= 0 THEN 1 ELSE 0

\* int(dt_local.dst().total_seconds() > 0)
IsDaylightSavingTime(dstSeconds) == IF dstSeconds > 0 THEN 1 ELSE 0

\* ------------------------------------------------- set_telescope_from_gps
Raise(type, at) ==
    /\ error' = Some([type |-> type, at |-> at])
    /\ pc' = "Aborted"

\* with Serial(ports.gps) as nmea_serial, Serial(ports.telescope) as nexstar_serial
Connect ==
    /\ pc = "Connect"
    /\ \E ok \in BOOLEAN :
        IF ok THEN pc' = "Identify" /\ UNCHANGED error
        ELSE Raise("SerialException", "Connect")
    /\ UNCHANGED <<calls, log, stale, resolved, ctrlTime, ctrlLoc, wffVars>>

\* Variant: exit is called, so a failed identification ends the run.
IdentifyExits ==
    /\ pc = "Identify"
    /\ \E outcome \in {"ok", "getModel fails", "getVersion fails"} :
        /\ calls' = IF outcome = "getModel fails"
                    THEN Append(calls, "getModel")
                    ELSE calls \o <<"getModel", "getVersion">>
        /\ log' = IF outcome = "ok" THEN log ELSE log \cup {"Exception occurred:"}
        /\ IF outcome = "ok"
           THEN pc' = "ResetBuffer" /\ UNCHANGED error
           ELSE Raise("SystemExit", "Identify")
    /\ UNCHANGED <<stale, resolved, ctrlTime, ctrlLoc, wffVars>>

\* try: getModel(); getVersion()  except Exception as ex: print(...); exit
\* (exit is only named, never called, so the run goes on)
Identify ==
    /\ pc = "Identify"
    /\ \E outcome \in {"ok", "getModel fails", "getVersion fails"} :
        /\ calls' = IF outcome = "getModel fails"
                    THEN Append(calls, "getModel")
                    ELSE calls \o <<"getModel", "getVersion">>
        /\ log' = IF outcome = "ok" THEN log ELSE log \cup {"Exception occurred:"}
    /\ pc' = "ResetBuffer"
    /\ UNCHANGED <<error, stale, resolved, ctrlTime, ctrlLoc, wffVars>>

\* Variant: the reader is created without resetting the input buffer.
ResetBufferSkipped ==
    /\ pc = "ResetBuffer"
    /\ pc' = "AcquireFix"
    /\ UNCHANGED <<calls, log, error, stale, resolved, ctrlTime, ctrlLoc, wffVars>>

\* nmea_serial.reset_input_buffer(); nmr = NMEAReader(nmea_serial)
ResetBuffer ==
    /\ pc = "ResetBuffer"
    /\ stale' = FALSE
    /\ pc' = "AcquireFix"
    /\ UNCHANGED <<calls, log, error, resolved, ctrlTime, ctrlLoc, wffVars>>

\* fix = wait_for_fix(nmr): the call, with hdop left at its default
CallWaitForFix ==
    /\ pc = "AcquireFix"
    /\ wpc = "idle"
    /\ WffEnter(DefaultHdop)
    /\ UNCHANGED <<seqVars, consumed>>

\* fix = wait_for_fix(nmr): the return
ReturnFromWait ==
    /\ pc = "AcquireFix"
    /\ wpc \in {"returned", "interrupted"}
    /\ pc' = "CheckFix"
    /\ UNCHANGED <<calls, log, error, stale, resolved, ctrlTime, ctrlLoc, wffVars>>

\* Variant: a missing fix is replaced by a default one.
CheckFixDefault ==
    /\ pc = "CheckFix"
    /\ log' = IF IsNone(fix) THEN log \cup {"Failed to acquire a fix. :("} ELSE log
    /\ fix' = IF IsNone(fix)
              THEN Some([lat |-> 34, lon |-> -118, date |-> DateWinter, time |-> TimeB])
              ELSE fix
    /\ pc' = "ResolveTime"
    /\ UNCHANGED <<calls, error, stale, resolved, ctrlTime, ctrlLoc,
                   hdop, wpc, msg, lat, lon, date, time, consumed>>

\* if fix is None: print("Failed to acquire a fix. :(")   -- and falls through
CheckFix ==
    /\ pc = "CheckFix"
    /\ log' = IF IsNone(fix) THEN log \cup {"Failed to acquire a fix. :("} ELSE log
    /\ pc' = "ResolveTime"
    /\ UNCHANGED <<calls, error, stale, resolved, ctrlTime, ctrlLoc, wffVars>>

\* Variant: coordinates without a timezone are resolved as UTC.
ResolveTimeUtcFallback ==
    /\ pc = "ResolveTime"
    /\ IF IsNone(fix)
       THEN Raise("AttributeError", "ResolveTime") /\ UNCHANGED resolved
       ELSE LET f == Val(fix)
                tz == TimezoneAt(f.lat, f.lon)
                zone == IF IsNone(tz) THEN "UTC" ELSE Val(tz)
                utc == DtUtc(f)
            IN  /\ resolved' = Some([utc |-> utc, local |-> AsTimezone(utc, zone),
                       dst |-> IsDaylightSavingTime(DstSeconds(zone, utc))])
                /\ pc' = "PushTime"
                /\ UNCHANGED error
    /\ UNCHANGED <<calls, log, stale, ctrlTime, ctrlLoc, wffVars>>

\* tz_local_str = tf.timezone_at(lat=fix.lat, lng=fix.lon) ... is_daylight_saving_time
\* fix.lat on None raises AttributeError; pytz.timezone(None) raises
\* UnknownTimeZoneError.
ResolveTime ==
    /\ pc = "ResolveTime"
    /\ IF IsNone(fix)
       THEN Raise("AttributeError", "ResolveTime") /\ UNCHANGED resolved
       ELSE LET f == Val(fix)
                tz == TimezoneAt(f.lat, f.lon)
            IN  IF IsNone(tz)
                THEN Raise("UnknownTimeZoneError", "ResolveTime") /\ UNCHANGED resolved
                ELSE LET utc == DtUtc(f)
                         local == AsTimezone(utc, Val(tz))
                     IN  /\ resolved' = Some([utc |-> utc, local |-> local,
                                dst |-> IsDaylightSavingTime(DstSeconds(Val(tz), utc))])
                         /\ pc' = "PushTime"
                         /\ UNCHANGED error
    /\ UNCHANGED <<calls, log, stale, ctrlTime, ctrlLoc, wffVars>>

\* Variant: the UTC instant is sent instead of the local one.
PushTimeUtc ==
    /\ pc = "PushTime"
    /\ calls' = Append(calls, "setTime")
    /\ \E ok \in BOOLEAN :
        IF ok
        THEN /\ ctrlTime' = Some([timestamp |-> Val(resolved).utc, dst |-> Val(resolved).dst])
             /\ pc' = "PushLocation"
             /\ UNCHANGED error
        ELSE Raise("NexstarProtocolError", "PushTime") /\ UNCHANGED ctrlTime
    /\ UNCHANGED <<log, stale, resolved, ctrlLoc, wffVars>>

\* Variant: a failing setTime is swallowed and the run goes on.
PushTimeSwallows ==
    /\ pc = "PushTime"
    /\ calls' = Append(calls, "setTime")
    /\ \E ok \in BOOLEAN :
        ctrlTime' = IF ok
                    THEN Some([timestamp |-> Val(resolved).local, dst |-> Val(resolved).dst])
                    ELSE ctrlTime
    /\ pc' = "PushLocation"
    /\ UNCHANGED <<log, error, stale, resolved, ctrlLoc, wffVars>>

\* controller.setTime(timestamp=dt_local, dst=is_daylight_saving_time)
PushTime ==
    /\ pc = "PushTime"
    /\ calls' = Append(calls, "setTime")
    /\ \E ok \in BOOLEAN :
        IF ok
        THEN /\ ctrlTime' = Some([timestamp |-> Val(resolved).local, dst |-> Val(resolved).dst])
             /\ pc' = "PushLocation"
             /\ UNCHANGED error
        ELSE Raise("NexstarProtocolError", "PushTime") /\ UNCHANGED ctrlTime
    /\ UNCHANGED <<log, stale, resolved, ctrlLoc, wffVars>>

\* controller.setLocation(fix.lat, fix.lon)
PushLocation ==
    /\ pc = "PushLocation"
    /\ calls' = Append(calls, "setLocation")
    /\ \E ok \in BOOLEAN :
        IF ok
        THEN /\ ctrlLoc' = Some(<<Val(fix).lat, Val(fix).lon>>)
             /\ pc' = "GetLocation"
             /\ UNCHANGED error
        ELSE Raise("NexstarProtocolError", "PushLocation") /\ UNCHANGED ctrlLoc
    /\ UNCHANGED <<log, stale, resolved, ctrlTime, wffVars>>

\* Variant: a failed read-back is tried again.
ReadBackRetries(at, op, next) ==
    /\ pc = at
    /\ Len(calls) < 12
    /\ calls' = Append(calls, op)
    /\ \E ok \in BOOLEAN : pc' = IF ok THEN next ELSE at
    /\ UNCHANGED <<log, error, stale, resolved, ctrlTime, ctrlLoc, wffVars>>

\* One read-back of the Verify step: print(..., controller.<op>()); an exception
\* raised by the call is not caught.
ReadBack(at, op, next) ==
    /\ pc = at
    /\ calls' = Append(calls, op)
    /\ \E ok \in BOOLEAN :
        IF ok THEN pc' = next /\ UNCHANGED error
        ELSE Raise("NexstarProtocolError", at)
    /\ UNCHANGED <<log, stale, resolved, ctrlTime, ctrlLoc, wffVars>>

\* print("Set telescope location:", controller.getLocation())
GetLocation == ReadBack("GetLocation", "getLocation", "GetTime")

\* print("Set telescope time:", controller.getTime())
GetTime == ReadBack("GetTime", "getTime", "GetPosition")

\* print("Current telescope position:", controller.getPosition())
GetPosition == ReadBack("GetPosition", "getPosition", "Completed")

Init ==
    /\ pc = "Connect"
    /\ calls = <<>>
    /\ log = {}
    /\ error = None
    /\ stale = TRUE
    /\ resolved = None /\ ctrlTime = None /\ ctrlLoc = None
    /\ consumed = <<>>
    /\ hdop = DefaultHdop
    /\ wpc = "idle"
    /\ msg = None
    /\ lat = None /\ lon = None /\ date = None /\ time = None
    /\ fix = None

Next ==
    \/ Connect
    \/ Identify
    \/ ResetBuffer
    \/ CallWaitForFix
    \/ WffRead
    \/ WffGGA
    \/ WffSetLon
    \/ WffSetTime
    \/ WffRMC
    \/ WffCheck
    \/ WffInterrupt
    \/ ReturnFromWait
    \/ CheckFix
    \/ ResolveTime
    \/ PushTime
    \/ PushLocation
    \/ GetLocation
    \/ GetTime
    \/ GetPosition

Spec == Init /\ [][Next]_vars

\* ================================================================= claims
\* Classification of records against the configured threshold (the hdop
\* parameter) and the validity flag, and what a record stream contains.
IsQualifying(r) == r.msgID = "GGA" /\ r.HDOP < hdop
IsValidDate(r) == r.msgID = "RMC" /\ r.status = "A"
HasQualifying(s) == \E i \in 1..Len(s) : IsQualifying(s[i])
HasValidDate(s) == \E i \in 1..Len(s) : IsValidDate(s[i])
Writes == {"setTime", "setLocation"}
ReadBacks == {"getLocation", "getTime", "getPosition"}
Called(op) == \E i \in 1..Len(calls) : calls[i] = op
VerifySteps == {"GetLocation", "GetTime", "GetPosition"}
IdentifyFailed == "Exception occurred:" \in log
ErrorAt(at) == ~IsNone(error) /\ Val(error).at = at

\* C1: wait_for_fix, not interrupted, has returned a Fix if and only if the
\* records consumed so far hold a qualifying GGA and a valid RMC: a returned
\* Fix implies both were consumed, and whenever the loop is back at its read
\* with every consumed record processed, not both have been consumed.
C1_FixIffBothSeen ==
    /\ wpc = "returned" =>
         ~IsNone(fix) /\ HasQualifying(consumed) /\ HasValidDate(consumed)
    /\ wpc = "read" =>
         IsNone(fix) /\ ~(HasQualifying(consumed) /\ HasValidDate(consumed))

\* C1 witness: a Fix returned after the valid RMC arrived first and the
\* qualifying GGA second.
C1_Witness ==
    /\ wpc = "returned"
    /\ Len(consumed) = 2
    /\ IsValidDate(consumed[1])
    /\ IsQualifying(consumed[2])
    /\ ~IsNone(fix)

\* C2 (as claimed): whatever hdop argument wait_for_fix was called with, a
\* returned Fix has the latitude, longitude and time of a consumed GGA whose
\* HDOP is strictly below that argument.
C2_ConfiguredThreshold ==
    wpc = "returned" =>
        \E i \in 1..Len(consumed) :
            /\ IsQualifying(consumed[i])
            /\ Val(fix).lat = consumed[i].lat
            /\ Val(fix).lon = consumed[i].lon
            /\ Val(fix).time = consumed[i].time

\* C3 (as claimed): once wait_for_fix has been interrupted, the run performs
\* no resolve, push or verify step and does not end with an exception.
C3_NoFixEndsCleanly ==
    wpc = "interrupted" =>
        /\ IsNone(error)
        /\ IsNone(resolved)
        /\ \A op \in Writes \cup ReadBacks : ~Called(op)

\* C4: an interrupted wait_for_fix returns None whatever has been
\* accumulated, and a returned Fix always carries all four fields, equal to
\* the accumulated ones.
C4_InterruptYieldsNone ==
    /\ wpc = "interrupted" => IsNone(fix)
    /\ ~IsNone(fix) =>
         /\ wpc = "returned"
         /\ AllPopulated(lat, lon, date, time)
         /\ Val(fix) = Fix(lat, lon, date, time)

\* C4 witness: interrupted with latitude and date populated, longitude and
\* time still missing.
C4_Witness ==
    /\ wpc = "interrupted"
    /\ ~IsNone(lat) /\ ~IsNone(date)
    /\ IsNone(lon) /\ IsNone(time)
    /\ IsNone(fix)

\* C5: setTime and setLocation are only ever invoked, and only ever take
\* effect, after wait_for_fix has returned a complete Fix.
C5_NoWriteBeforeFix ==
    (\/ pc \in {"PushTime", "PushLocation"}
     \/ \E op \in Writes : Called(op)
     \/ ~IsNone(ctrlTime) \/ ~IsNone(ctrlLoc)) =>
        /\ wpc = "returned"
        /\ ~IsNone(fix)
        /\ HasQualifying(consumed) /\ HasValidDate(consumed)

\* C5 witness: both writes have taken effect.
C5_Witness == ~IsNone(ctrlTime) /\ ~IsNone(ctrlLoc) /\ Called("setLocation")

\* C6 (as claimed): a run ends either Completed with every read-back
\* attempted, or Aborted with neither setTime nor setLocation in effect.
C6_TwoTerminalStates ==
    /\ pc = "Completed" => \A op \in ReadBacks : Called(op)
    /\ pc = "Aborted" => IsNone(ctrlTime) /\ IsNone(ctrlLoc)

\* C6 (amended): a run ends Completed, with both writes in effect and every
\* read-back attempted, or Aborted by an exception; an abort before or in
\* PushTime leaves neither write in effect, an abort in PushLocation leaves
\* setTime in effect and Verify unattempted, an abort in Verify leaves both
\* in effect; setLocation is never in effect without setTime.
C6_TerminalStates ==
    /\ pc = "Completed" =>
         /\ IsNone(error)
         /\ ~IsNone(ctrlTime) /\ ~IsNone(ctrlLoc)
         /\ \A op \in ReadBacks : Called(op)
    /\ pc = "Aborted" =>
         /\ ~IsNone(error)
         /\ Val(error).at \in {"Connect", "ResolveTime", "PushTime"} =>
              IsNone(ctrlTime) /\ IsNone(ctrlLoc)
         /\ Val(error).at = "PushLocation" =>
              /\ ~IsNone(ctrlTime) /\ IsNone(ctrlLoc)
              /\ \A op \in ReadBacks : ~Called(op)
         /\ Val(error).at \in VerifySteps => ~IsNone(ctrlTime) /\ ~IsNone(ctrlLoc)
    /\ ~IsNone(ctrlLoc) => ~IsNone(ctrlTime)
    /\ ~IsNone(error) => pc = "Aborted"

\* C6 witness: the run aborted in setLocation with setTime already in effect.
C6_Witness == pc = "Aborted" /\ ErrorAt("PushLocation") /\ ~IsNone(ctrlTime)

\* C7 (as claimed): no run is ended by an exception raised in a read-back of
\* the Verify step.
C7_VerifyErrorsNonFatal == \A at \in VerifySteps : ~ErrorAt(at)

\* C8: a failed identification is reported and never ends the run: Identify
\* always goes on to the buffer reset, and from there a run with a failed
\* identification takes the same steps as any other (acquire, and with a Fix
\* whose timezone resolves, setTime then setLocation).
C8_IdentifyFailureContinues ==
    /\ [](IdentifyFailed => ~ErrorAt("Identify") /\ pc # "Identify")
    /\ [][/\ pc = "Identify" => pc' = "ResetBuffer"
          /\ (IdentifyFailed /\ pc = "ResetBuffer") => (pc' = "AcquireFix" /\ ~stale')
          /\ (IdentifyFailed /\ pc = "AcquireFix" /\ wpc = "idle") => wpc' = "read"
          /\ (IdentifyFailed /\ pc = "ResolveTime" /\ ~IsNone(fix)
                /\ ~IsNone(TimezoneAt(Val(fix).lat, Val(fix).lon))) => pc' = "PushTime"
          /\ (IdentifyFailed /\ pc = "PushTime") => Called("setTime")'
          /\ (IdentifyFailed /\ pc = "PushLocation") => Called("setLocation")'
         ]_vars

\* C8 witness: identification failed at getModel and the run still pushed
\* time and location.
C8_Witness ==
    /\ IdentifyFailed
    /\ ~Called("getVersion")
    /\ ~IsNone(ctrlTime) /\ ~IsNone(ctrlLoc)

\* C9: when the lookup has no timezone for the Fix's coordinates the run
\* aborts in ResolveTime with pytz's UnknownTimeZoneError; nothing is
\* resolved, and setTime and setLocation are never called.
C9_NoTimezoneIsFatal ==
    (~IsNone(fix) /\ IsNone(TimezoneAt(Val(fix).lat, Val(fix).lon))) =>
        /\ pc \in {"AcquireFix", "CheckFix", "ResolveTime", "Aborted"}
        /\ pc = "Aborted" => error = Some([type |-> "UnknownTimeZoneError", at |-> "ResolveTime"])
        /\ IsNone(resolved) /\ IsNone(ctrlTime) /\ IsNone(ctrlLoc)
        /\ \A op \in Writes : ~Called(op)

\* C9 witness: a run aborted because the Fix's coordinates have no timezone.
C9_Witness ==
    /\ pc = "Aborted"
    /\ ~IsNone(fix)
    /\ IsNone(TimezoneAt(Val(fix).lat, Val(fix).lon))
    /\ ~IsNone(error) /\ Val(error).type = "UnknownTimeZoneError"

\* C10: while the record in hand is a GGA whose HDOP is at or above the
\* threshold, no step changes latitude, longitude, time-of-day or date.
C10_RejectedReportChangesNothing ==
    [][(~IsNone(msg) /\ Val(msg).msgID = "GGA" /\ Val(msg).HDOP >= hdop) =>
         UNCHANGED <<lat, lon, time, date>>]_vars

\* C10 witness: a qualifying report was stored, a later report with a worse
\* HDOP and another position was processed, and the stored one is still held.
C10_Witness ==
    /\ wpc = "read"
    /\ Len(consumed) = 2
    /\ IsQualifying(consumed[1])
    /\ consumed[2].msgID = "GGA" /\ consumed[2].HDOP >= hdop
    /\ consumed[2].lat # consumed[1].lat
    /\ lat = Some(consumed[1].lat)
    /\ lon = Some(consumed[1].lon)
    /\ time = Some(consumed[1].time)


\* C11: while the record in hand is an RMC whose status is not valid, no step
\* changes date, latitude, longitude or time-of-day; and as long as no valid
\* RMC has been consumed the date is unset and no Fix has been returned.
C11_InvalidDateChangesNothing ==
    /\ [][(~IsNone(msg) /\ Val(msg).msgID = "RMC" /\ Val(msg).status # "A") =>
            UNCHANGED <<date, lat, lon, time>>]_vars
    /\ [](~HasValidDate(consumed) =>
            IsNone(date) /\ IsNone(fix) /\ wpc # "returned")

\* C11 witness: two qualifying reports and an invalid RMC have been processed;
\* the position is held, the date is still unset and the loop is reading on.
C11_Witness ==
    /\ wpc = "read"
    /\ Len(consumed) = 3
    /\ IsQualifying(consumed[1]) /\ IsQualifying(consumed[3])
    /\ consumed[2].msgID = "RMC" /\ consumed[2].status # "A"
    /\ ~IsNone(lat) /\ ~IsNone(lon) /\ ~IsNone(time)
    /\ IsNone(date) /\ IsNone(fix)


\* C12: wait_for_fix never returns to its read with all four fields
\* populated; the Fix it returns is produced by the first record that
\* completes the four fields; and once it has returned, no further record is
\* read and the returned value never changes.
C12_EmitsAtFirstCompleteRecord ==
    /\ [](wpc = "read" => ~AllPopulated(lat, lon, date, time))
    /\ [](wpc = "returned" =>
            LET earlier == SubSeq(consumed, 1, Len(consumed) - 1)
            IN  /\ ~IsNone(msg) /\ Val(msg) = consumed[Len(consumed)]
                /\ ~(HasQualifying(earlier) /\ HasValidDate(earlier)))
    /\ [][(wpc \in {"returned", "interrupted"}) =>
            UNCHANGED <<consumed, fix, wpc, msg>>]_vars

\* C12 witness: the run completed on a Fix returned after two records, with
\* room left in the stream for more.
C12_Witness ==
    /\ pc = "Completed"
    /\ wpc = "returned"
    /\ Len(consumed) = 2
    /\ Len(consumed) < MaxRecords


\* Index of the last record of s that passes Test (s holds one).
LastWhere(s, Test(_)) ==
    CHOOSE i \in 1..Len(s) : Test(s[i]) /\ \A j \in (i + 1)..Len(s) : ~Test(s[j])

\* C13: between records the accumulator holds the latitude, longitude and
\* time-of-day of the most recent qualifying GGA consumed and the date of the
\* most recent valid RMC consumed, and a returned Fix carries exactly those
\* four values (so never the time-of-day of an RMC).
C13_FixCarriesMostRecent ==
    LET g == consumed[LastWhere(consumed, IsQualifying)]
        r == consumed[LastWhere(consumed, IsValidDate)]
    IN  /\ (wpc = "read" /\ HasQualifying(consumed)) =>
              lat = Some(g.lat) /\ lon = Some(g.lon) /\ time = Some(g.time)
        /\ (wpc = "read" /\ HasValidDate(consumed)) => date = Some(r.date)
        /\ wpc = "returned" =>
              Val(fix) = [lat |-> g.lat, lon |-> g.lon, time |-> g.time, date |-> r.date]

\* C13 witness: two qualifying reports with different positions and times,
\* then a valid RMC; the Fix carries the second report's values.
C13_Witness ==
    /\ wpc = "returned"
    /\ Len(consumed) = 3
    /\ IsQualifying(consumed[1]) /\ IsQualifying(consumed[2])
    /\ consumed[1].lat # consumed[2].lat
    /\ consumed[1].time # consumed[2].time
    /\ IsValidDate(consumed[3])
    /\ Val(fix).lat = consumed[2].lat
    /\ Val(fix).time = consumed[2].time
    /\ Val(fix).time # consumed[3].time


\* C14: as long as every GGA consumed has an HDOP at or above the threshold,
\* latitude, longitude and time-of-day stay unset and no Fix is returned,
\* whatever else (valid RMCs included) has been consumed; the call is then
\* still in its loop or was ended by an interrupt.
C14_PoorPrecisionStalls ==
    ~HasQualifying(consumed) =>
        /\ IsNone(lat) /\ IsNone(lon) /\ IsNone(time)
        /\ IsNone(fix)
        /\ wpc \in {"idle", "read", "gga", "rmc", "check", "interrupted"}
        /\ (wpc # "idle" /\ pc # "AcquireFix") => wpc = "interrupted"

\* C14 witness: three records consumed, among them a valid RMC and GGAs that
\* all have too high an HDOP, and the loop is still waiting.
C14_Witness ==
    /\ wpc = "read"
    /\ Len(consumed) = 3
    /\ ~HasQualifying(consumed)
    /\ HasValidDate(consumed)
    /\ consumed[1].msgID = "GGA" /\ consumed[3].msgID = "GGA"
    /\ ~IsNone(date)


\* C15: with a source that keeps delivering and no interrupt, once the
\* consumed stream holds a qualifying GGA and a valid RMC, wait_for_fix
\* eventually returns a Fix, however many discarded records came before.
C15_AcquisitionTerminates ==
    (HasQualifying(consumed) /\ HasValidDate(consumed))
        ~> (wpc = "returned" /\ ~IsNone(fix))

\* C15 witness: a Fix returned after the first record was discarded.
C15_Witness ==
    /\ wpc = "returned"
    /\ ~IsNone(fix)
    /\ Len(consumed) = 3
    /\ ~IsQualifying(consumed[1]) /\ ~IsValidDate(consumed[1])


\* Position of the (first) invocation of op in calls.
PosOf(op) == CHOOSE i \in 1..Len(calls) : calls[i] = op

\* The wall-clock time in Los Angeles of 02:00:00 UTC on the model's two
\* dates, worked out by hand: 2024-01-01 02:00 UTC is 2023-12-31 18:00 PST,
\* 2024-06-01 02:00 UTC is 2024-05-31 19:00 PDT.
LosAngelesLocal(d) ==
    IF d = DateWinter
    THEN [year |-> 2023, month |-> 12, day |-> 31, hour |-> 18, minute |-> 0,
          second |-> 0, microsecond |-> 0, tz |-> "America/Los_Angeles"]
    ELSE [year |-> 2024, month |-> 5, day |-> 31, hour |-> 19, minute |-> 0,
          second |-> 0, microsecond |-> 0, tz |-> "America/Los_Angeles"]

\* C16: setTime is invoked before setLocation and both before any read-back;
\* the time the controller receives is the Fix's UTC date and time (to the
\* second) converted to the zone of the Fix's coordinates, not the UTC
\* instant, together with the daylight-saving flag computed for it; the
\* location it receives is exactly the Fix's latitude and longitude.
C16_PushOrderAndArguments ==
    /\ Called("setLocation") =>
         Called("setTime") /\ PosOf("setTime") < PosOf("setLocation")
    /\ \A rb \in ReadBacks : Called(rb) =>
         /\ Called("setTime") /\ PosOf("setTime") < PosOf(rb)
         /\ Called("setLocation") /\ PosOf("setLocation") < PosOf(rb)
    /\ ~IsNone(ctrlTime) =>
         /\ Val(fix).lat = 34 /\ Val(fix).lon = -118 /\ Val(fix).time = TimeB
         /\ Val(ctrlTime).timestamp = LosAngelesLocal(Val(fix).date)
         /\ Val(ctrlTime).timestamp # Val(resolved).utc
         /\ Val(ctrlTime).dst = Val(resolved).dst
    /\ ~IsNone(ctrlLoc) => Val(ctrlLoc) = <<Val(fix).lat, Val(fix).lon>>

\* C16 witness: a completed run on the summer date; the controller holds the
\* previous local day, 19:00, and the Fix's coordinates.
C16_Witness ==
    /\ pc = "Completed"
    /\ Val(fix).date = DateSummer
    /\ Val(ctrlTime).timestamp.day = 31 /\ Val(ctrlTime).timestamp.hour = 19
    /\ Val(ctrlLoc) = <<34, -118>>
    /\ calls = <<"getModel", "getVersion", "setTime", "setLocation",
                 "getLocation", "getTime", "getPosition">>


\* C17: the daylight-saving flag computed and pushed is 1 exactly when the
\* daylight-saving offset of the local instant is above zero seconds: for
\* Los Angeles it is 1 on the summer date and 0 on the winter date, although
\* the zone's UTC offset is non-zero on both.
C17_DstFlagFromDstOffset ==
    /\ ~IsNone(resolved) =>
         LET r == Val(resolved)
         IN  /\ r.dst \in {0, 1}
             /\ r.dst = 1 <=> DstSeconds(r.local.tz, r.utc) > 0
             /\ r.dst = 1 <=> Val(fix).date = DateSummer
             /\ StdOffset(r.local.tz) # 0
             /\ r.local.hour # r.utc.hour
    /\ ~IsNone(ctrlTime) => Val(ctrlTime).dst = Val(resolved).dst

\* C17 witness: the flag pushed is 0 for a local instant eight hours behind
\* UTC.
C17_Witness ==
    /\ ~IsNone(ctrlTime)
    /\ Val(ctrlTime).dst = 0
    /\ Val(resolved).utc.hour = 2
    /\ Val(ctrlTime).timestamp.hour = 18


\* C18: every record is read with the GPS input buffer already reset; the
\* buffer state changes only by the one reset, taken before wait_for_fix is
\* entered and before anything is consumed; no reset is pending or taken
\* once the accumulator has started.
C18_ResetBeforeFirstRead ==
    /\ [][consumed' # consumed => (~stale /\ ~stale')]_vars
    /\ [][stale' # stale =>
            (stale /\ ~stale' /\ pc = "ResetBuffer" /\ wpc = "idle" /\ consumed = <<>>)]_vars
    /\ [](pc = "ResetBuffer" => (wpc = "idle" /\ consumed = <<>>))
    /\ [](wpc # "idle" => ~stale)

\* C18 witness: the first record has been read, after the reset.
C18_Witness ==
    /\ pc = "AcquireFix"
    /\ Len(consumed) = 1
    /\ wpc = "gga"
    /\ ~stale


ControllerOps ==
    {"getModel", "getVersion", "setTime", "setLocation",
     "getLocation", "getTime", "getPosition"}

\* Number of invocations of op so far.
TimesCalled(op) == Cardinality({i \in 1..Len(calls) : calls[i] = op})

\* Place of a step in the Sequencer's linear order.
StepRank(p) ==
    CASE p = "Connect" -> 1
      [] p = "Identify" -> 2
      [] p = "ResetBuffer" -> 3
      [] p = "AcquireFix" -> 4
      [] p = "CheckFix" -> 5
      [] p = "ResolveTime" -> 6
      [] p = "PushTime" -> 7
      [] p = "PushLocation" -> 8
      [] p = "GetLocation" -> 9
      [] p = "GetTime" -> 10
      [] p = "GetPosition" -> 11
      [] p = "Completed" -> 12
      [] p = "Aborted" -> 13

\* C19: within a run every controller operation is invoked at most once,
\* whether it succeeds or fails; invocations are only ever added; and the
\* Sequencer only moves forward through its steps.
C19_NoRetry ==
    /\ [](\A op \in ControllerOps : TimesCalled(op) <= 1)
    /\ [](\A i \in 1..Len(calls) : calls[i] \in ControllerOps)
    /\ [][Len(calls') >= Len(calls) /\ SubSeq(calls', 1, Len(calls)) = calls]_vars
    /\ [][pc' # pc => StepRank(pc') > StepRank(pc)]_vars
    /\ [][(calls' # calls) => pc' # pc]_vars

\* C19 witness: getTime failed, was invoked once, and the run ended there.
C19_Witness ==
    /\ pc = "Aborted"
    /\ ErrorAt("GetTime")
    /\ TimesCalled("getTime") = 1
    /\ TimesCalled("getLocation") = 1
    /\ TimesCalled("getPosition") = 0


\* Latitude, longitude and time-of-day are all unset, or all three are those
\* of one consumed qualifying GGA.
PositionFromOneReport ==
    \/ IsNone(lat) /\ IsNone(lon) /\ IsNone(time)
    \/ \E i \in 1..Len(consumed) :
        /\ IsQualifying(consumed[i])
        /\ lat = Some(consumed[i].lat)
        /\ lon = Some(consumed[i].lon)
        /\ time = Some(consumed[i].time)

\* The record consumed last was accepted: a qualifying GGA or a valid RMC.
LastRecordAccepted ==
    /\ Len(consumed) > 0
    /\ IsQualifying(consumed[Len(consumed)]) \/ IsValidDate(consumed[Len(consumed)])

\* C20 (as claimed): in every state of wait_for_fix, latitude, longitude and
\* time-of-day are all unset or all from one report, and a Fix is returned
\* only right after an accepted record.
C20_NeverMixed ==
    /\ PositionFromOneReport
    /\ wpc = "returned" => LastRecordAccepted

\* C20 (amended): at the read, at the GGA and RMC tests, at the completeness
\* test and once a Fix is returned, latitude, longitude and time-of-day are
\* all unset or all from one qualifying report; between the three
\* assignments of a qualifying report the fields already assigned are that
\* report's and the others are still the earlier ones; a Fix is returned only
\* right after an accepted record.
C20_MixedOnlyWhileAssigning ==
    /\ wpc \in {"idle", "read", "gga", "rmc", "check", "returned"} => PositionFromOneReport
    /\ wpc \in {"gga_lon", "gga_time"} =>
         /\ IsQualifying(Val(msg))
         /\ lat = Some(Val(msg).lat)
         /\ wpc = "gga_time" => lon = Some(Val(msg).lon)
    /\ wpc = "returned" => LastRecordAccepted

\* C20 witness: the second of two qualifying reports is being stored; latitude
\* and longitude are already its own, the time-of-day is still the first's.
C20_Witness ==
    /\ wpc = "gga_time"
    /\ Len(consumed) = 2
    /\ IsQualifying(consumed[1]) /\ IsQualifying(consumed[2])
    /\ lat = Some(consumed[2].lat) /\ lon = Some(consumed[2].lon)
    /\ time = Some(consumed[1].time)
    /\ consumed[1].time # consumed[2].time
    /\ ~PositionFromOneReport

====
